---- MODULE Spec2Model ----
(***************************************************************************)
(* pg_pathman: transaction-level lock helpers (src/xact_handling.c) and    *)
(* the partition-creation protocol and range search declared in            *)
(* src/pathman.h.                                                          *)
(*                                                                         *)
(* One partitioned parent relation is modelled; SetLocktagRelationOid maps *)
(* a relid to one lock tag, and every lock below is a lock on that tag.    *)
(* The lock manager the helpers call (LockAcquire, LockRelease,            *)
(* LockRelationOid, ProcSleep, ProcLockWakeup) is modelled at the          *)
(* granularity of one lock-manager call per step.                          *)
(***************************************************************************)
EXTENDS Integers, Sequences, FiniteSets, TLC

(***************************************************************************)
(* Bounds of the model.                                                    *)
(***************************************************************************)
NumSessions == 2
MaxRefs == 2
MaxLen == 3
MaxBound == 6
MaxPartId == 4
MaxPrior == 1
Interval == 2

(***************************************************************************)
(* Lock modes, in the numeric order the probe loop (lockmode++) walks.     *)
(***************************************************************************)
AccessShareLock == 1
RowShareLock == 2
RowExclusiveLock == 3
ShareUpdateExclusiveLock == 4
ShareLock == 5
ShareRowExclusiveLock == 6
ExclusiveLock == 7
AccessExclusiveLock == 8

Modes == AccessShareLock..AccessExclusiveLock

\* The lock manager's conflict table (LockConflicts[]).
conflictTab(m) ==
    CASE m = AccessShareLock -> {AccessExclusiveLock}
      [] m = RowShareLock -> {ExclusiveLock, AccessExclusiveLock}
      [] m = RowExclusiveLock ->
            {ShareLock, ShareRowExclusiveLock, ExclusiveLock, AccessExclusiveLock}
      [] m = ShareUpdateExclusiveLock ->
            {ShareUpdateExclusiveLock, ShareLock, ShareRowExclusiveLock,
             ExclusiveLock, AccessExclusiveLock}
      [] m = ShareLock ->
            {RowExclusiveLock, ShareUpdateExclusiveLock, ShareRowExclusiveLock,
             ExclusiveLock, AccessExclusiveLock}
      [] m = ShareRowExclusiveLock ->
            {RowExclusiveLock, ShareUpdateExclusiveLock, ShareLock,
             ShareRowExclusiveLock, ExclusiveLock, AccessExclusiveLock}
      [] m = ExclusiveLock ->
            {RowShareLock, RowExclusiveLock, ShareUpdateExclusiveLock, ShareLock,
             ShareRowExclusiveLock, ExclusiveLock, AccessExclusiveLock}
      [] OTHER -> Modes

(***************************************************************************)
(* Processes: the user sessions, and one background worker per session     *)
(* (the isolated execution context a session's creation is deferred to).   *)
(***************************************************************************)
Sessions == 1..NumSessions
Workers == (NumSessions + 1)..(2 * NumSessions)
Procs == Sessions \cup Workers
WorkerOf(s) == s + NumSessions
OwnerOf(w) == w - NumSessions

NoLocks == [m \in Modes |-> 0]

\* XactIsoLevel is read by xact_is_level_read_committed alone: the level the
\* transaction was started at is drawn when it is first read, and kept until
\* the transaction ends.
NoLevel == -1

VARIABLES
    held,       \* held[p][m]: p's local reference count (nLocks) of mode m
    waitq,      \* the lock's wait queue: sequence of [proc, mode]
    pc,         \* pc[p]: where process p is
    lockmode,   \* lockmode[p]: the probe loop's variable
    acq,        \* acq[p]: the LockAcquire result the helper is acting on
    ret,        \* ret[p]: the value the last probe returned
    snap,       \* snap[p]: p's reference counts when its current call began
    seen,       \* seen[p]: what the lock table showed at the conditional attempt
    after,      \* after[p]: where p continues when its current call returns
    editDepth,  \* editDepth[p]: returned lock_partitioned_rel calls not yet unlocked
    dataDepth   \* dataDepth[p]: returned lock_rel_data calls not yet unlocked

lockvars == <<held, waitq, pc, lockmode, acq, ret, snap, seen, after, editDepth, dataDepth>>

VARIABLES
    iso,        \* iso[s]: XactIsoLevel of session s's current transaction
    ranges,     \* the published RangeEntry sequence of the parent
    nextId,     \* the identifier the next created partition gets
    ev,         \* ev[p]: the missing-partition event p is driving
    search,     \* the range search's input and output (search specification)
    walk        \* the expression walker's input and output (walker specification)

orchvars == <<iso, ranges, nextId, ev>>

vars == <<lockvars, orchvars, search, walk>>

(***************************************************************************)
(* The lock manager.                                                       *)
(***************************************************************************)
HeldModes(h, p) == {m \in Modes : h[p][m] > 0}

TotalRefs(h, p) == h[p][1] + h[p][2] + h[p][3] + h[p][4] + h[p][5] + h[p][6] + h[p][7] + h[p][8]

\* LockCheckConflicts: does mode m conflict with a lock some other process holds?
LockCheckConflicts(h, p, m) ==
    \E t \in Procs \ {p} : HeldModes(h, t) \cap conflictTab(m) # {}

\* lock->waitMask: the modes some waiter is queued for.
waitMask(q) == {q[i].mode : i \in 1..Len(q)}

IsWaiting(q, p) == \E i \in 1..Len(q) : q[i].proc = p

GrantLock(h, p, m) == [h EXCEPT ![p][m] = @ + 1]

\* ProcLockWakeup: walk the queue in order, granting every waiter whose request
\* conflicts neither with a held lock nor with the request of a waiter left ahead.
RECURSIVE ProcLockWakeup(_, _, _, _)
ProcLockWakeup(h, rest, kept, ahead) ==
    IF rest = <<>>
    THEN [held |-> h, waitq |-> kept]
    ELSE LET w == Head(rest) IN
         IF conflictTab(w.mode) \cap ahead = {} /\ ~LockCheckConflicts(h, w.proc, w.mode)
         THEN ProcLockWakeup(GrantLock(h, w.proc, w.mode), Tail(rest), kept, ahead)
         ELSE ProcLockWakeup(h, Tail(rest), Append(kept, w), ahead \cup {w.mode})

\* LockRelease(tag, m, false): a lock not held is a warning and nothing else;
\* otherwise one reference is dropped, and when it was the last the lock is
\* released in the shared table and the waiters are woken.
LockRelease(h, q, p, m) ==
    IF h[p][m] = 0 THEN [held |-> h, waitq |-> q]
    ELSE IF h[p][m] > 1 THEN [held |-> [h EXCEPT ![p][m] = @ - 1], waitq |-> q]
    ELSE ProcLockWakeup([h EXCEPT ![p][m] = 0], q, <<>>, {})

\* LockReleaseAll at transaction end.
LockReleaseAll(h, q, p) ==
    ProcLockWakeup([h EXCEPT ![p] = NoLocks], q, <<>>, {})

RemoveFromWaitQueue(q, p) == SelectSeq(q, LAMBDA w : w.proc # p)

\* ProcSleep's choice of the queue position: at the end, unless this process
\* holds a lock that conflicts with an earlier waiter's request; then just in
\* front of the first such waiter, where the lock is granted at once if nothing
\* held or requested ahead conflicts, and a deadlock is reported at once if that
\* waiter in turn holds a lock this request conflicts with.
RECURSIVE ProcSleep(_, _, _, _, _, _)
ProcSleep(h, q, p, m, i, ahead) ==
    IF i > Len(q)
    THEN [kind |-> "queued", held |-> h, waitq |-> Append(q, [proc |-> p, mode |-> m])]
    ELSE IF conflictTab(q[i].mode) \cap HeldModes(h, p) # {}
         THEN IF conflictTab(m) \cap HeldModes(h, q[i].proc) # {}
              THEN [kind |-> "deadlock", held |-> h, waitq |-> q]
              ELSE IF conflictTab(m) \cap ahead = {} /\ ~LockCheckConflicts(h, p, m)
                   THEN [kind |-> "granted", held |-> GrantLock(h, p, m), waitq |-> q]
                   ELSE [kind |-> "queued", held |-> h,
                         waitq |-> SubSeq(q, 1, i - 1) \o <<[proc |-> p, mode |-> m]>>
                                   \o SubSeq(q, i, Len(q))]
         ELSE ProcSleep(h, q, p, m, i + 1, ahead \cup {q[i].mode})

\* LockAcquire(tag, m, sessionLock = false, dontWait): the result and the lock
\* table after it.  A mode this transaction already holds is granted locally
\* (ALREADY_HELD) without looking at the shared table.
LockAcquire(h, q, p, m, dontWait) ==
    IF h[p][m] > 0
    THEN [kind |-> "ALREADY_HELD", held |-> GrantLock(h, p, m), waitq |-> q]
    ELSE IF conflictTab(m) \cap waitMask(q) = {} /\ ~LockCheckConflicts(h, p, m)
         THEN [kind |-> "OK", held |-> GrantLock(h, p, m), waitq |-> q]
         ELSE IF dontWait
              THEN [kind |-> "NOT_AVAIL", held |-> h, waitq |-> q]
              ELSE LET r == ProcSleep(h, q, p, m, 1, {}) IN
                   IF r.kind = "granted" THEN [r EXCEPT !.kind = "OK"] ELSE r

(***************************************************************************)
(* Initial state: every session is inside a transaction that holds no lock *)
(* and is in no call; the workers are not running.                         *)
(***************************************************************************)
NoSeen == [own |-> FALSE, others |-> FALSE, waiters |-> FALSE]

InitLocks ==
    /\ held = [p \in Procs |-> NoLocks]
    /\ waitq = <<>>
    /\ pc = [p \in Procs |-> IF p \in Sessions THEN "txn" ELSE "off"]
    /\ lockmode = [p \in Procs |-> 0]
    /\ acq = [p \in Procs |-> "none"]
    /\ ret = [p \in Procs |-> "none"]
    /\ snap = [p \in Procs |-> NoLocks]
    /\ seen = [p \in Procs |-> NoSeen]
    /\ after = [p \in Procs |-> "txn"]
    /\ editDepth = [p \in Procs |-> 0]
    /\ dataDepth = [p \in Procs |-> 0]

\* The transaction of p ends in an error: its wait (if any) is cancelled and
\* all its locks are released.
AbortLocks(p) ==
    LET r == LockReleaseAll(held, RemoveFromWaitQueue(waitq, p), p) IN
    /\ held' = r.held
    /\ waitq' = r.waitq
    /\ editDepth' = [editDepth EXCEPT ![p] = 0]
    /\ dataDepth' = [dataDepth EXCEPT ![p] = 0]

\* LockRelationOid(relid, m): the blocking acquire.  The caller continues at
\* `next` once the lock is granted; until then it sits at "wait_" \o what.
LockRelationOid(p, m, what, next) ==
    LET r == LockAcquire(held, waitq, p, m, FALSE) IN
    /\ after' = [after EXCEPT ![p] = next]
    /\ UNCHANGED <<lockmode, acq, ret, snap, seen>>
    /\ IF r.kind \in {"OK", "ALREADY_HELD"}
       THEN /\ held' = r.held
            /\ waitq' = r.waitq
            /\ pc' = [pc EXCEPT ![p] = "got_" \o what]
            /\ UNCHANGED <<editDepth, dataDepth>>
       ELSE IF r.kind = "queued"
       THEN /\ held' = r.held
            /\ waitq' = r.waitq
            /\ pc' = [pc EXCEPT ![p] = "wait_" \o what]
            /\ UNCHANGED <<editDepth, dataDepth>>
       ELSE /\ AbortLocks(p)
            /\ pc' = [pc EXCEPT ![p] = "error"]

\* WaitOnLock returns: another process's release granted the awaited lock.
LockGranted(p) ==
    /\ pc[p] \in {"wait_edit", "wait_data", "wait_stmt"}
    /\ ~IsWaiting(waitq, p)
    /\ pc' = [pc EXCEPT ![p] = IF pc[p] = "wait_edit" THEN "got_edit"
                                ELSE IF pc[p] = "wait_data" THEN "got_data"
                                ELSE "got_stmt"]
    /\ UNCHANGED <<held, waitq, lockmode, acq, ret, snap, seen, after, editDepth, dataDepth>>
    /\ UNCHANGED <<orchvars, search, walk>>

(***************************************************************************)
(* src/xact_handling.c                                                     *)
(***************************************************************************)

\* xact_lock_partitioned_rel: LockRelationOid(relid, ShareUpdateExclusiveLock).
xact_lock_partitioned_rel_Share(p, next) ==
    LockRelationOid(p, ShareLock, "edit", next)

xact_lock_partitioned_rel(p, next) ==
    LockRelationOid(p, ShareUpdateExclusiveLock, "edit", next)

\* xact_lock_partitioned_rel has returned to its caller.
LockedPartitionedRel(p) ==
    /\ pc[p] = "got_edit"
    /\ pc' = [pc EXCEPT ![p] = after[p]]
    /\ after' = [after EXCEPT ![p] = "txn"]
    /\ editDepth' = [editDepth EXCEPT ![p] = @ + 1]
    /\ UNCHANGED <<held, waitq, lockmode, acq, ret, snap, seen, dataDepth>>
    /\ UNCHANGED <<orchvars, search, walk>>

\* xact_unlock_partitioned_rel: UnlockRelationOid(relid, ShareUpdateExclusiveLock).
xact_unlock_partitioned_rel(p, next) ==
    LET r == LockRelease(held, waitq, p, ShareUpdateExclusiveLock) IN
    /\ held' = r.held
    /\ waitq' = r.waitq
    /\ editDepth' = [editDepth EXCEPT ![p] = IF @ > 0 THEN @ - 1 ELSE 0]
    /\ pc' = [pc EXCEPT ![p] = next]
    /\ UNCHANGED <<lockmode, acq, ret, snap, seen, after, dataDepth>>

\* xact_lock_rel_data: LockRelationOid(relid, ShareLock).
xact_lock_rel_data_RowExclusive(p, next) ==
    LockRelationOid(p, RowExclusiveLock, "data", next)

xact_lock_rel_data(p, next) ==
    LockRelationOid(p, ShareLock, "data", next)

\* xact_lock_rel_data has returned to its caller.
LockedRelData(p) ==
    /\ pc[p] = "got_data"
    /\ pc' = [pc EXCEPT ![p] = after[p]]
    /\ after' = [after EXCEPT ![p] = "txn"]
    /\ dataDepth' = [dataDepth EXCEPT ![p] = @ + 1]
    /\ UNCHANGED <<held, waitq, lockmode, acq, ret, snap, seen, editDepth>>
    /\ UNCHANGED <<orchvars, search, walk>>

\* xact_unlock_rel_data: UnlockRelationOid(relid, ShareLock).
xact_unlock_rel_data(p, next) ==
    LET r == LockRelease(held, waitq, p, ShareLock) IN
    /\ held' = r.held
    /\ waitq' = r.waitq
    /\ dataDepth' = [dataDepth EXCEPT ![p] = IF @ > 0 THEN @ - 1 ELSE 0]
    /\ pc' = [pc EXCEPT ![p] = next]
    /\ UNCHANGED <<lockmode, acq, ret, snap, seen, after, editDepth>>

\* xact_bgw_conflicting_lock_exists is entered: the loop variable starts at
\* ShareUpdateExclusiveLock.
xact_bgw_conflicting_lock_exists_FromShare(p, next) ==
    /\ pc' = [pc EXCEPT ![p] = "bgw_acquire"]
    /\ lockmode' = [lockmode EXCEPT ![p] = ShareLock]
    /\ snap' = [snap EXCEPT ![p] = held[p]]
    /\ ret' = [ret EXCEPT ![p] = "none"]
    /\ after' = [after EXCEPT ![p] = next]
    /\ UNCHANGED <<held, waitq, acq, seen, editDepth, dataDepth>>

xact_bgw_conflicting_lock_exists(p, next) ==
    /\ pc' = [pc EXCEPT ![p] = "bgw_acquire"]
    /\ lockmode' = [lockmode EXCEPT ![p] = ShareUpdateExclusiveLock]
    /\ snap' = [snap EXCEPT ![p] = held[p]]
    /\ ret' = [ret EXCEPT ![p] = "none"]
    /\ after' = [after EXCEPT ![p] = next]
    /\ UNCHANGED <<held, waitq, acq, seen, editDepth, dataDepth>>

\* The loop of xact_bgw_conflicting_lock_exists after do_we_hold_the_lock
\* returned v for lockmode[p]: return true, or try the next mode, or return
\* false after AccessExclusiveLock.
LoopStep(p, v) ==
    IF v
    THEN /\ ret' = [ret EXCEPT ![p] = TRUE]
         /\ pc' = [pc EXCEPT ![p] = "bgw_ret"]
         /\ UNCHANGED lockmode
    ELSE IF lockmode[p] + 1 <= AccessExclusiveLock
    THEN /\ lockmode' = [lockmode EXCEPT ![p] = @ + 1]
         /\ pc' = [pc EXCEPT ![p] = "bgw_acquire"]
         /\ UNCHANGED ret
    ELSE /\ ret' = [ret EXCEPT ![p] = FALSE]
         /\ pc' = [pc EXCEPT ![p] = "bgw_ret"]
         /\ UNCHANGED lockmode

do_we_hold_the_lock_acquire_Blocking(p) ==
    /\ pc[p] = "bgw_acquire"
    /\ LET r == LockAcquire(held, waitq, p, lockmode[p], FALSE) IN
       /\ held' = r.held
       /\ waitq' = r.waitq
       /\ IF r.kind \in {"ALREADY_HELD", "OK"}
          THEN /\ acq' = [acq EXCEPT ![p] = r.kind]
               /\ pc' = [pc EXCEPT ![p] = "bgw_release"]
               /\ UNCHANGED <<lockmode, ret>>
          ELSE /\ acq' = [acq EXCEPT ![p] = "none"]
               /\ LoopStep(p, FALSE)
    /\ UNCHANGED <<snap, seen, after, editDepth, dataDepth>>
    /\ UNCHANGED <<orchvars, search, walk>>

\* do_we_hold_the_lock, first half: LockAcquire(&tag, lockmode, false, true).
\* LOCKACQUIRE_NOT_AVAIL is the default case: return false.
do_we_hold_the_lock_acquire(p) ==
    /\ pc[p] = "bgw_acquire"
    /\ LET r == LockAcquire(held, waitq, p, lockmode[p], TRUE) IN
       /\ held' = r.held
       /\ waitq' = r.waitq
       /\ IF r.kind \in {"ALREADY_HELD", "OK"}
          THEN /\ acq' = [acq EXCEPT ![p] = r.kind]
               /\ pc' = [pc EXCEPT ![p] = "bgw_release"]
               /\ UNCHANGED <<lockmode, ret>>
          ELSE /\ acq' = [acq EXCEPT ![p] = "none"]
               /\ LoopStep(p, FALSE)
    /\ UNCHANGED <<snap, seen, after, editDepth, dataDepth>>
    /\ UNCHANGED <<orchvars, search, walk>>

\* do_we_hold_the_lock, second half: LockRelease(&tag, lockmode, false) in both
\* the ALREADY_HELD case (return true) and the OK case (return false).
do_we_hold_the_lock_release_Leak(p) ==
    /\ pc[p] = "bgw_release"
    /\ LET r == IF acq[p] = "OK" THEN [held |-> held, waitq |-> waitq]
                ELSE LockRelease(held, waitq, p, lockmode[p]) IN
       /\ held' = r.held
       /\ waitq' = r.waitq
    /\ acq' = [acq EXCEPT ![p] = "none"]
    /\ LoopStep(p, acq[p] = "ALREADY_HELD")
    /\ UNCHANGED <<snap, seen, after, editDepth, dataDepth>>
    /\ UNCHANGED <<orchvars, search, walk>>

do_we_hold_the_lock_release(p) ==
    /\ pc[p] = "bgw_release"
    /\ LET r == LockRelease(held, waitq, p, lockmode[p]) IN
       /\ held' = r.held
       /\ waitq' = r.waitq
    /\ acq' = [acq EXCEPT ![p] = "none"]
    /\ LoopStep(p, acq[p] = "ALREADY_HELD")
    /\ UNCHANGED <<snap, seen, after, editDepth, dataDepth>>
    /\ UNCHANGED <<orchvars, search, walk>>

\* What the lock table shows a conditional attempt at mode m by p.
LockTableSeen(p, m) ==
    [own |-> held[p][m] > 0,
     others |-> LockCheckConflicts(held, p, m),
     waiters |-> conflictTab(m) \cap waitMask(waitq) # {}]

xact_is_table_being_modified_AccessExclusive(p, next) ==
    LET r == LockAcquire(held, waitq, p, AccessExclusiveLock, TRUE) IN
    /\ held' = r.held
    /\ waitq' = r.waitq
    /\ snap' = [snap EXCEPT ![p] = held[p]]
    /\ seen' = [seen EXCEPT ![p] = LockTableSeen(p, ExclusiveLock)]
    /\ after' = [after EXCEPT ![p] = next]
    /\ IF r.kind = "NOT_AVAIL"
       THEN /\ ret' = [ret EXCEPT ![p] = TRUE]
            /\ pc' = [pc EXCEPT ![p] = "mod_ret"]
       ELSE /\ ret' = [ret EXCEPT ![p] = "none"]
            /\ pc' = [pc EXCEPT ![p] = "mod_release"]
    /\ UNCHANGED <<lockmode, acq, editDepth, dataDepth>>

\* xact_is_table_being_modified, first half:
\* ConditionalLockRelationOid(relid, ExclusiveLock); on failure return true.
xact_is_table_being_modified(p, next) ==
    LET r == LockAcquire(held, waitq, p, ExclusiveLock, TRUE) IN
    /\ held' = r.held
    /\ waitq' = r.waitq
    /\ snap' = [snap EXCEPT ![p] = held[p]]
    /\ seen' = [seen EXCEPT ![p] = LockTableSeen(p, ExclusiveLock)]
    /\ after' = [after EXCEPT ![p] = next]
    /\ IF r.kind = "NOT_AVAIL"
       THEN /\ ret' = [ret EXCEPT ![p] = TRUE]
            /\ pc' = [pc EXCEPT ![p] = "mod_ret"]
       ELSE /\ ret' = [ret EXCEPT ![p] = "none"]
            /\ pc' = [pc EXCEPT ![p] = "mod_release"]
    /\ UNCHANGED <<lockmode, acq, editDepth, dataDepth>>

xact_is_table_being_modified_release_NoUnlock(p) ==
    /\ pc[p] = "mod_release"
    /\ ret' = [ret EXCEPT ![p] = FALSE]
    /\ pc' = [pc EXCEPT ![p] = "mod_ret"]
    /\ UNCHANGED <<held, waitq, lockmode, acq, snap, seen, after, editDepth, dataDepth>>
    /\ UNCHANGED <<orchvars, search, walk>>

\* xact_is_table_being_modified, second half:
\* UnlockRelationOid(relid, ExclusiveLock); return false.
xact_is_table_being_modified_release(p) ==
    /\ pc[p] = "mod_release"
    /\ LET r == LockRelease(held, waitq, p, ExclusiveLock) IN
       /\ held' = r.held
       /\ waitq' = r.waitq
    /\ ret' = [ret EXCEPT ![p] = FALSE]
    /\ pc' = [pc EXCEPT ![p] = "mod_ret"]
    /\ UNCHANGED <<lockmode, acq, snap, seen, after, editDepth, dataDepth>>
    /\ UNCHANGED <<orchvars, search, walk>>

\* A probe has returned to its caller.
ProbeReturn(p) ==
    /\ pc[p] \in {"bgw_ret", "mod_ret"}
    /\ pc' = [pc EXCEPT ![p] = after[p]]
    /\ after' = [after EXCEPT ![p] = "txn"]
    /\ lockmode' = [lockmode EXCEPT ![p] = 0]
    /\ ret' = [ret EXCEPT ![p] = IF after[p] = "txn" THEN "none" ELSE @]
    /\ snap' = [snap EXCEPT ![p] = NoLocks]
    /\ seen' = [seen EXCEPT ![p] = NoSeen]
    /\ UNCHANGED <<held, waitq, acq, editDepth, dataDepth>>
    /\ UNCHANGED <<orchvars, search, walk>>

(***************************************************************************)
(* The lock coordinator on its own: every session runs transactions that   *)
(* lock the relation by their statements, call the helpers of              *)
(* xact_handling.c in any order, and end.                                  *)
(***************************************************************************)
NoEvent == [state |-> "None", value |-> -1, result |-> 0]

NoSearch == [ranges |-> <<>>, value |-> 0, out |-> -1, idx |-> 0]

\* No walk is in progress.
NoWalk == [ranges |-> <<>>, expr |-> <<>>, done |-> FALSE, rangeset |-> {},
           found_gap |-> FALSE]

InitOther ==
    /\ iso = [s \in Sessions |-> NoLevel]
    /\ ranges = <<>>
    /\ nextId = 1
    /\ ev = [p \in Procs |-> NoEvent]
    /\ search = NoSearch
    /\ walk = NoWalk

Init == InitLocks /\ InitOther

InTxn(p) == pc[p] = "txn"

\* A statement of the transaction locks the relation in mode m.
StatementLock(p, m) ==
    /\ InTxn(p)
    /\ TotalRefs(held, p) < MaxRefs
    /\ LockRelationOid(p, m, "stmt", "txn")
    /\ UNCHANGED <<orchvars, search, walk>>

\* The same before or after an insert, under the orchestrator's bound.
PriorLock(p, m) ==
    /\ InTxn(p)
    /\ TotalRefs(held, p) < MaxPrior
    /\ LockRelationOid(p, m, "stmt", "txn")
    /\ UNCHANGED <<orchvars, search, walk>>

StatementLocked(p) ==
    /\ pc[p] = "got_stmt"
    /\ pc' = [pc EXCEPT ![p] = after[p]]
    /\ after' = [after EXCEPT ![p] = "txn"]
    /\ UNCHANGED <<held, waitq, lockmode, acq, ret, snap, seen, editDepth, dataDepth>>
    /\ UNCHANGED <<orchvars, search, walk>>

CallLockPartitionedRel(p) ==
    /\ InTxn(p)
    /\ TotalRefs(held, p) < MaxRefs
    /\ xact_lock_partitioned_rel(p, "txn")
    /\ UNCHANGED <<orchvars, search, walk>>

CallUnlockPartitionedRel(p) ==
    /\ InTxn(p)
    /\ xact_unlock_partitioned_rel(p, "txn")
    /\ UNCHANGED <<orchvars, search, walk>>

CallLockRelData(p) ==
    /\ InTxn(p)
    /\ TotalRefs(held, p) < MaxRefs
    /\ xact_lock_rel_data(p, "txn")
    /\ UNCHANGED <<orchvars, search, walk>>

CallUnlockRelData(p) ==
    /\ InTxn(p)
    /\ xact_unlock_rel_data(p, "txn")
    /\ UNCHANGED <<orchvars, search, walk>>

CallConflictingLockExists(p) ==
    /\ InTxn(p)
    /\ xact_bgw_conflicting_lock_exists(p, "txn")
    /\ UNCHANGED <<orchvars, search, walk>>

CallIsTableBeingModified(p) ==
    /\ InTxn(p)
    /\ xact_is_table_being_modified(p, "txn")
    /\ UNCHANGED <<orchvars, search, walk>>

\* The transaction commits or rolls back: every lock it holds is released.
TxnEnd(p) ==
    /\ InTxn(p)
    /\ LET r == LockReleaseAll(held, waitq, p) IN
       /\ held' = r.held
       /\ waitq' = r.waitq
    /\ editDepth' = [editDepth EXCEPT ![p] = 0]
    /\ dataDepth' = [dataDepth EXCEPT ![p] = 0]
    /\ UNCHANGED <<pc, lockmode, acq, ret, snap, seen, after>>
    /\ UNCHANGED <<orchvars, search, walk>>

\* A lock wait ends in an error (deadlock detected, timeout, cancel): the
\* transaction is rolled back.
WaitInterrupted(p) ==
    /\ pc[p] \in {"wait_edit", "wait_data", "wait_stmt"}
    /\ IsWaiting(waitq, p)
    /\ AbortLocks(p)
    /\ pc' = [pc EXCEPT ![p] = "error"]
    /\ UNCHANGED <<lockmode, acq, ret, snap, seen, after>>
    /\ UNCHANGED <<orchvars, search, walk>>

\* After the rollback the session is in a new transaction.
ErrorCleared(p) ==
    /\ pc[p] = "error"
    /\ pc' = [pc EXCEPT ![p] = "txn"]
    /\ after' = [after EXCEPT ![p] = "txn"]
    /\ UNCHANGED <<held, waitq, lockmode, acq, ret, snap, seen, editDepth, dataDepth>>
    /\ UNCHANGED <<orchvars, search, walk>>

Next ==
    \E p \in Sessions :
        \/ \E m \in Modes : StatementLock(p, m)
        \/ StatementLocked(p)
        \/ CallLockPartitionedRel(p)
        \/ CallUnlockPartitionedRel(p)
        \/ CallLockRelData(p)
        \/ CallUnlockRelData(p)
        \/ CallConflictingLockExists(p)
        \/ CallIsTableBeingModified(p)
        \/ LockGranted(p)
        \/ LockedPartitionedRel(p)
        \/ LockedRelData(p)
        \/ do_we_hold_the_lock_acquire(p)
        \/ do_we_hold_the_lock_release(p)
        \/ xact_is_table_being_modified_release(p)
        \/ ProbeReturn(p)
        \/ TxnEnd(p)
        \/ WaitInterrupted(p)
        \/ ErrorCleared(p)

Spec == Init /\ [][Next]_vars

(***************************************************************************)
(* Properties of the lock coordinator.                                     *)
(***************************************************************************)
EditStrength == ShareUpdateExclusiveLock..AccessExclusiveLock

\* The modes weaker than the edit lock: the reader locks and the row-level
\* write lock.
WeakModes == {m \in Modes : m < ShareUpdateExclusiveLock}

WaitingFor(p, m) == \E i \in 1..Len(waitq) : waitq[i] = [proc |-> p, mode |-> m]

\* C1: when xact_bgw_conflicting_lock_exists (has_conflicting_lock) returns,
\* the caller holds every lock mode with the reference count it had when the
\* call began, whatever the probe returned.
C1_ProbeKeepsLockState ==
    \A p \in Procs : pc[p] = "bgw_ret" => held[p] = snap[p]

\* The probe returned true on a mode held twice while another session holds a
\* lock of its own.
C1_Witness ==
    \E p \in Procs, t \in Procs :
        /\ p # t
        /\ pc[p] = "bgw_ret"
        /\ ret[p] = TRUE
        /\ \E m \in EditStrength : held[p][m] = 2
        /\ HeldModes(held, t) # {}

\* C2: xact_bgw_conflicting_lock_exists returns true exactly when the caller
\* itself held, when the call began, a lock at one of the modes from
\* ShareUpdateExclusiveLock to AccessExclusiveLock.
C2_ProbeResult ==
    \A p \in Procs :
        pc[p] = "bgw_ret" =>
            /\ ret[p] \in BOOLEAN
            /\ ret[p] = (\E m \in EditStrength : snap[p][m] > 0)

\* The probe returned false to a caller holding its row-write lock while
\* another session holds a lock of the edit strength.
C2_Witness ==
    \E p \in Procs, t \in Procs :
        /\ p # t
        /\ pc[p] = "bgw_ret"
        /\ ret[p] = FALSE
        /\ held[p][RowExclusiveLock] > 0
        /\ HeldModes(held, t) \cap EditStrength # {}

\* C3: at most one session is between a returned xact_lock_partitioned_rel
\* and its xact_unlock_partitioned_rel; while one is, no other session's
\* xact_lock_partitioned_rel has been granted the lock.
C3_EditMutualExclusion ==
    \A s \in Procs, t \in Procs :
        (s # t /\ editDepth[s] > 0) => (editDepth[t] = 0 /\ pc[t] # "got_edit")

\* One session is inside, a second one waits in xact_lock_partitioned_rel.
C3_Witness ==
    \E s \in Procs, t \in Procs :
        /\ s # t
        /\ editDepth[s] > 0
        /\ pc[t] = "wait_edit"
        /\ WaitingFor(t, ShareUpdateExclusiveLock)

C8_Original ==
    \A s \in Procs, t \in Procs :
        (/\ s # t
         /\ \A u \in Procs \ {s, t} : HeldModes(held, u) = {}
         /\ Len(waitq) = 1)
        => /\ ~(/\ dataDepth[s] > 0
                /\ HeldModes(held, s) = {ShareLock}
                /\ HeldModes(held, t) = {}
                /\ WaitingFor(t, RowExclusiveLock))
           /\ ~(/\ HeldModes(held, t) = {RowExclusiveLock}
                /\ HeldModes(held, s) = {}
                /\ pc[s] = "wait_data"
                /\ WaitingFor(s, ShareLock))

\* C8 as amended: while one session is between xact_lock_rel_data and
\* xact_unlock_rel_data, no other session holds a row-level write lock or any
\* lock of a structural change.
C8_DataLockExcludesWriters ==
    \A s \in Procs, t \in Procs :
        (s # t /\ dataDepth[s] > 0) =>
            HeldModes(held, t) \cap
                {RowExclusiveLock, ShareUpdateExclusiveLock, ShareRowExclusiveLock,
                 ExclusiveLock, AccessExclusiveLock} = {}

\* One session holds the data lock next to a reader, and a writer waits.
C8_Witness ==
    \E s \in Procs, t \in Procs :
        /\ s # t
        /\ dataDepth[s] > 0
        /\ WaitingFor(t, RowExclusiveLock)

\* q is in no call and every lock it holds was taken by
\* xact_lock_partitioned_rel.
OnlyEditLocks(q) == pc[q] \in {"txn", "off"} /\ TotalRefs(held, q) = editDepth[q]

\* q is in no call and holds only locks weaker than the edit lock.
OnlyWeakLocks(q) == pc[q] \in {"txn", "off"} /\ HeldModes(held, q) \subseteq WeakModes

\* C16: the lock of xact_lock_partitioned_rel conflicts with itself and with
\* no weaker mode.  Two processes never hold it together; a request for a
\* mode weaker than ShareUpdateExclusiveLock never waits while the other
\* processes hold nothing but locks taken by xact_lock_partitioned_rel; and
\* xact_lock_partitioned_rel never waits while the other processes hold
\* nothing but weaker locks.
C16_EditLockSparesWeakModes ==
    /\ \A s \in Procs, t \in Procs :
          s # t => ~(held[s][ShareUpdateExclusiveLock] > 0 /\ held[t][ShareUpdateExclusiveLock] > 0)
    /\ \A p \in Procs :
          (\E m \in WeakModes : WaitingFor(p, m))
          => \E q \in Procs \ {p} : ~OnlyEditLocks(q)
    /\ \A p \in Procs :
          (pc[p] = "wait_edit" /\ IsWaiting(waitq, p))
          => \E q \in Procs \ {p} : ~OnlyWeakLocks(q)

\* One session is inside xact_lock_partitioned_rel .. unlock; another has
\* just been granted a statement's lock and holds a reader lock and its
\* row-level write lock.
C16_Witness ==
    \E s \in Procs, t \in Procs :
        /\ s # t
        /\ editDepth[s] > 0
        /\ held[s][ShareUpdateExclusiveLock] > 0
        /\ pc[t] = "got_stmt"
        /\ held[t][AccessShareLock] > 0
        /\ held[t][RowExclusiveLock] > 0

\* The positions inside the two probes.
ProbePoints == {"bgw_acquire", "bgw_release", "bgw_ret", "mod_release", "mod_ret"}

\* The probe's own next step at each of its positions.
ProbeStep(p) ==
    \/ do_we_hold_the_lock_acquire(p)
    \/ do_we_hold_the_lock_release(p)
    \/ xact_is_table_being_modified_release(p)
    \/ ProbeReturn(p)

\* How many own steps a probe has left at most: an acquire and a release for
\* each mode still to try, and the return.
ProbeStepsLeft(p) ==
    IF pc[p] = "bgw_acquire" THEN 2 * (AccessExclusiveLock - lockmode[p]) + 3
    ELSE IF pc[p] = "bgw_release" THEN 2 * (AccessExclusiveLock - lockmode[p]) + 2
    ELSE IF pc[p] = "mod_release" THEN 2
    ELSE IF pc[p] \in {"bgw_ret", "mod_ret"} THEN 1
    ELSE 0

\* C17: the probes never suspend.  Inside xact_bgw_conflicting_lock_exists
\* and xact_is_table_being_modified the caller is never in the wait queue
\* and its next step can always be taken, whatever the other sessions hold
\* or await; every step of a probe lowers the number of steps it has left,
\* which starts at one conditional attempt and one release per probed mode.
C17_ProbesNeverSuspend ==
    /\ [](\A p \in Procs :
            pc[p] \in ProbePoints =>
                /\ ~IsWaiting(waitq, p)
                /\ ENABLED ProbeStep(p)
                /\ ProbeStepsLeft(p) <= 2 * Cardinality(EditStrength) + 1)
    /\ [][\A p \in Procs :
            (pc[p] \in ProbePoints /\ <<pc[p], lockmode[p]>>' # <<pc[p], lockmode[p]>>)
            => ProbeStepsLeft(p)' < ProbeStepsLeft(p)]_vars

\* xact_bgw_conflicting_lock_exists has returned false to a caller whose
\* row-write lock another session waits behind: each of its conditional
\* attempts was refused because of that waiter.
C17_Witness ==
    \E p \in Procs, t \in Procs :
        /\ p # t
        /\ pc[p] = "bgw_ret"
        /\ ret[p] = FALSE
        /\ held[p][RowExclusiveLock] > 0
        /\ WaitingFor(t, ShareLock)

\* C18: xact_is_table_being_modified leaves the caller's locks as they were.
\* After a successful conditional attempt the caller holds one reference
\* more at ExclusiveLock and nothing else has changed; when the call returns,
\* with either result, it holds every mode with the reference count it had
\* when the call began.
C18_ModifiedProbeKeepsLockState ==
    \A p \in Procs :
        /\ pc[p] = "mod_release" =>
               held[p] = [snap[p] EXCEPT ![ExclusiveLock] = @ + 1]
        /\ pc[p] = "mod_ret" =>
               /\ ret[p] \in BOOLEAN
               /\ held[p] = snap[p]

\* It returned false to a caller that held ExclusiveLock already, and still
\* holds it once.
C18_Witness ==
    \E p \in Procs :
        /\ pc[p] = "mod_ret"
        /\ ret[p] = FALSE
        /\ snap[p][ExclusiveLock] = 1
        /\ held[p][ExclusiveLock] = 1

\* a is inside do_we_hold_the_lock between a LockAcquire that returned OK and
\* the LockRelease, and held no lock when its probe began: the lock it holds
\* is the probe's own.
TransientOnly(a) == pc[a] = "bgw_release" /\ acq[a] = "OK" /\ snap[a] = NoLocks

\* C19: a probe by a session that holds no lock is invisible to the others.
\* While a is between a conditional acquire and its release, another
\* session's xact_is_table_being_modified returns true only if it would
\* without a's lock, and its request for a lock is queued only if it would
\* be without a's lock.
C19_Original ==
    [][\A a \in Procs, b \in Procs :
          (a # b /\ TransientOnly(a))
          => LET h == [held EXCEPT ![a] = NoLocks] IN
             /\ (pc[b] = "txn" /\ pc'[b] = "mod_ret" /\ ret'[b] = TRUE)
                => LockAcquire(h, waitq, b, ExclusiveLock, TRUE).kind = "NOT_AVAIL"
             /\ \A m \in Modes :
                   (pc[b] = "txn" /\ IsWaiting(waitq', b) /\ WaitingFor(b, m)')
                   => LockAcquire(h, waitq, b, m, FALSE).kind = "queued"]_vars

(***************************************************************************)
(* The range search (src/pathman.h: search_rangerel_result,                *)
(* search_range_partition_eq), as section 4.2 describes it: a binary       *)
(* search of the sorted sequence of half-open intervals [min, max).        *)
(***************************************************************************)
SEARCH_RANGEREL_OUT_OF_RANGE == 0
SEARCH_RANGEREL_GAP == 1
SEARCH_RANGEREL_FOUND == 2

\* The binary search between positions lo and hi.
RECURSIVE BinarySearch_MaxInclusive(_, _, _, _)
BinarySearch_MaxInclusive(value, rs, lo, hi) ==
    IF lo > hi
    THEN [res |-> SEARCH_RANGEREL_GAP, idx |-> 0]
    ELSE LET i == lo + ((hi - lo) \div 2) IN
         IF value < rs[i].min THEN BinarySearch_MaxInclusive(value, rs, lo, i - 1)
         ELSE IF value > rs[i].max THEN BinarySearch_MaxInclusive(value, rs, i + 1, hi)
         ELSE [res |-> SEARCH_RANGEREL_FOUND, idx |-> i]

RECURSIVE BinarySearch(_, _, _, _)
BinarySearch(value, rs, lo, hi) ==
    IF lo > hi
    THEN [res |-> SEARCH_RANGEREL_GAP, idx |-> 0]
    ELSE LET i == lo + ((hi - lo) \div 2) IN
         IF value < rs[i].min THEN BinarySearch(value, rs, lo, i - 1)
         ELSE IF value >= rs[i].max THEN BinarySearch(value, rs, i + 1, hi)
         ELSE [res |-> SEARCH_RANGEREL_FOUND, idx |-> i]

\* search_range_partition_eq(value, cmp_func, prel, out_re): out of range when
\* there is no partition, or the value is below the first min or not below the
\* last max; otherwise the binary search decides between found and gap.
search_range_partition_eq(value, rs) ==
    IF Len(rs) = 0
    THEN [res |-> SEARCH_RANGEREL_OUT_OF_RANGE, idx |-> 0]
    ELSE IF value < rs[1].min \/ value >= rs[Len(rs)].max
    THEN [res |-> SEARCH_RANGEREL_OUT_OF_RANGE, idx |-> 0]
    ELSE BinarySearch(value, rs, 1, Len(rs))

\* The inputs of the search: every sorted sequence of at most MaxLen
\* non-overlapping intervals with bounds in 0..MaxBound, and every value there.
Bounds == 0..MaxBound

Intervals == {iv \in [min : Bounds, max : Bounds] : iv.min < iv.max}

SortedNoOverlap(rs) ==
    \A i \in 1..Len(rs) :
        /\ rs[i].min < rs[i].max
        /\ i < Len(rs) => rs[i].max <= rs[i + 1].min

RangeSeqs ==
    {rs \in UNION {[1..n -> Intervals] : n \in 0..MaxLen} : SortedNoOverlap(rs)}

SearchInit ==
    /\ InitLocks
    /\ iso = [s \in Sessions |-> NoLevel]
    /\ ranges = <<>>
    /\ nextId = 1
    /\ ev = [p \in Procs |-> NoEvent]
    /\ \E rs \in RangeSeqs, v \in Bounds :
          search = [ranges |-> rs, value |-> v, out |-> -1, idx |-> 0]
    /\ walk = NoWalk

SearchCall ==
    /\ search.out = -1
    /\ LET r == search_range_partition_eq(search.value, search.ranges) IN
       search' = [search EXCEPT !.out = r.res, !.idx = r.idx]
    /\ UNCHANGED <<lockvars, orchvars, walk>>

SearchNext == SearchCall

SearchSpec == SearchInit /\ [][SearchNext]_vars

Covers(e, v) == e.min <= v /\ v < e.max

\* C10: for every sorted non-overlapping sequence and every value the search
\* returns FOUND with the index of the containing entry iff some entry's
\* [min, max) contains the value, GAP iff no entry contains it and it lies
\* between two entries, and OUT_OF_RANGE otherwise; a value equal to an
\* entry's max is never attributed to that entry.
C10_SearchResult ==
    search.out # -1 =>
        LET rs == search.ranges
            v == search.value
            covered == \E i \in 1..Len(rs) : Covers(rs[i], v)
            between == /\ \E i \in 1..Len(rs) : rs[i].max <= v
                       /\ \E j \in 1..Len(rs) : v < rs[j].min
        IN /\ search.out \in {SEARCH_RANGEREL_OUT_OF_RANGE, SEARCH_RANGEREL_GAP,
                               SEARCH_RANGEREL_FOUND}
           /\ (search.out = SEARCH_RANGEREL_FOUND) = covered
           /\ search.out = SEARCH_RANGEREL_FOUND =>
                 /\ search.idx \in 1..Len(rs)
                 /\ Covers(rs[search.idx], v)
                 /\ v # rs[search.idx].max
           /\ (search.out = SEARCH_RANGEREL_GAP) = (~covered /\ between)
           /\ (search.out = SEARCH_RANGEREL_OUT_OF_RANGE) = (~covered /\ ~between)

\* The value equals the max of one entry and the min of the next, and the
\* search attributed it to the next.
C10_Witness ==
    /\ search.out = SEARCH_RANGEREL_FOUND
    /\ search.idx > 1
    /\ search.ranges[search.idx - 1].max = search.value
    /\ search.ranges[search.idx].min = search.value

(***************************************************************************)
(* The expression walker (src/pathman.h: WrapperNode, WalkerContext,       *)
(* select_range_partitions, walk_expr_tree), as sections 4.2 and 4.3       *)
(* describe it.  An expression is a record: a comparison of the key with a *)
(* constant, an AND or an OR of two expressions, or a node the walker      *)
(* cannot resolve.  The selectivity estimate plays no part in the set of   *)
(* partitions and is left out.                                             *)
(***************************************************************************)
Strategies == {"lt", "le", "eq", "ge", "gt"}

Cmp(strategy, value) ==
    [op |-> "cmp", strategy |-> strategy, value |-> value, args |-> <<>>]

Unresolvable == [op |-> "other", strategy |-> "none", value |-> 0, args |-> <<>>]

BoolNode(op, args) == [op |-> op, strategy |-> "none", value |-> 0, args |-> args]

\* The last position between lo and hi whose min is below the value (or equal
\* to it, when inclusive); lo - 1 when there is none.
RECURSIVE LastMinBelow(_, _, _, _, _)
LastMinBelow(value, inclusive, rs, lo, hi) ==
    IF lo > hi
    THEN hi
    ELSE LET i == lo + ((hi - lo) \div 2) IN
         IF rs[i].min < value \/ (inclusive /\ rs[i].min = value)
         THEN LastMinBelow(value, inclusive, rs, i + 1, hi)
         ELSE LastMinBelow(value, inclusive, rs, lo, i - 1)

RECURSIVE FirstMaxAbove_ByMin(_, _, _, _)
FirstMaxAbove_ByMin(value, rs, lo, hi) ==
    IF lo > hi
    THEN lo
    ELSE LET i == lo + ((hi - lo) \div 2) IN
         IF rs[i].min > value
         THEN FirstMaxAbove_ByMin(value, rs, lo, i - 1)
         ELSE FirstMaxAbove_ByMin(value, rs, i + 1, hi)

\* The first position between lo and hi whose max is above the value; hi + 1
\* when there is none.  max is exclusive, so a value equal to a partition's
\* max belongs to the next partition.
RECURSIVE FirstMaxAbove(_, _, _, _)
FirstMaxAbove(value, rs, lo, hi) ==
    IF lo > hi
    THEN lo
    ELSE LET i == lo + ((hi - lo) \div 2) IN
         IF rs[i].max > value
         THEN FirstMaxAbove(value, rs, lo, i - 1)
         ELSE FirstMaxAbove(value, rs, i + 1, hi)

\* select_range_partitions(value, cmp_func, ranges, nranges, strategy, result):
\* equality delegates to the search; an inequality returns the prefix or the
\* suffix of the sequence that the boundary found by binary search delimits.
select_range_partitions(value, rs, strategy) ==
    IF strategy = "eq"
    THEN LET r == search_range_partition_eq(value, rs) IN
         IF r.res = SEARCH_RANGEREL_FOUND
         THEN [rangeset |-> {r.idx}, found_gap |-> FALSE]
         ELSE [rangeset |-> {}, found_gap |-> TRUE]
    ELSE IF strategy \in {"lt", "le"}
    THEN [rangeset |-> 1..LastMinBelow(value, strategy = "le", rs, 1, Len(rs)),
          found_gap |-> FALSE]
    ELSE [rangeset |-> FirstMaxAbove(value, rs, 1, Len(rs))..Len(rs),
          found_gap |-> FALSE]

\* walk_expr_tree(expr, context): AND intersects and OR unites the children's
\* rangesets, either one ORs their gap flags; a comparison of the key with a
\* constant delegates to select_range_partitions; every other node is
\* unresolvable: all partitions, no gap.
RECURSIVE walk_expr_tree(_, _)
walk_expr_tree(expr, rs) ==
    IF expr.op = "cmp"
    THEN select_range_partitions(expr.value, rs, expr.strategy)
    ELSE IF expr.op \in {"and", "or"}
    THEN LET l == walk_expr_tree(expr.args[1], rs)
             r == walk_expr_tree(expr.args[2], rs)
         IN [rangeset |-> IF expr.op = "and"
                          THEN l.rangeset \cap r.rangeset
                          ELSE l.rangeset \cup r.rangeset,
             found_gap |-> l.found_gap \/ r.found_gap]
    ELSE [rangeset |-> 1..Len(rs), found_gap |-> FALSE]

\* The inputs of the walker: the leaves compare the key with every value of
\* Bounds under every strategy, or are unresolvable; the trees combine two
\* leaves, or a two-leaf tree and an unresolvable node.
Leaves == {Cmp(s, v) : s \in Strategies, v \in Bounds} \cup {Unresolvable}

Pairs == {BoolNode(op, <<a, b>>) : op \in {"and", "or"}, a \in Leaves, b \in Leaves}

Nested == {BoolNode(op, <<Unresolvable, e>>) : op \in {"and", "or"}, e \in Pairs}

Exprs == Leaves \cup Pairs \cup Nested

WalkInit ==
    /\ InitLocks
    /\ iso = [s \in Sessions |-> NoLevel]
    /\ ranges = <<>>
    /\ nextId = 1
    /\ ev = [p \in Procs |-> NoEvent]
    /\ search = NoSearch
    /\ \E rs \in RangeSeqs, e \in Exprs :
          walk = [ranges |-> rs, expr |-> e, done |-> FALSE, rangeset |-> {},
                  found_gap |-> FALSE]

WalkCall ==
    /\ ~walk.done
    /\ LET w == walk_expr_tree(walk.expr, walk.ranges) IN
       walk' = [walk EXCEPT !.done = TRUE, !.rangeset = w.rangeset,
                            !.found_gap = w.found_gap]
    /\ UNCHANGED <<lockvars, orchvars, search>>

WalkNext == WalkCall

WalkSpec == WalkInit /\ [][WalkNext]_vars

\* Whether a row with this key satisfies the expression, for some value of
\* what the unresolvable nodes stand for: such a node may be true of any row.
RECURSIVE Sat(_, _)
Sat(expr, key) ==
    IF expr.op = "cmp"
    THEN CASE expr.strategy = "lt" -> key < expr.value
           [] expr.strategy = "le" -> key <= expr.value
           [] expr.strategy = "eq" -> key = expr.value
           [] expr.strategy = "ge" -> key >= expr.value
           [] expr.strategy = "gt" -> key > expr.value
    ELSE IF expr.op = "and"
    THEN Sat(expr.args[1], key) /\ Sat(expr.args[2], key)
    ELSE IF expr.op = "or"
    THEN Sat(expr.args[1], key) \/ Sat(expr.args[2], key)
    ELSE TRUE

HasUnresolvable(expr) ==
    \/ expr.op = "other"
    \/ \E i \in 1..Len(expr.args) :
          \/ expr.args[i].op = "other"
          \/ \E j \in 1..Len(expr.args[i].args) : expr.args[i].args[j].op = "other"

\* C11: pruning is sound.  For every sorted non-overlapping sequence and every
\* expression built from AND, OR, comparisons of the key with a constant and
\* unresolvable nodes, every key that satisfies the expression and lies in a
\* partition has that partition's position in the rangeset walk_expr_tree
\* returns.
C11_PruningSound ==
    walk.done =>
        \A key \in Bounds, i \in 1..Len(walk.ranges) :
            (Covers(walk.ranges[i], key)
             /\ Sat(walk.expr, key))
            => i \in walk.rangeset

\* A conjunction with an unresolvable node pruned the first of three
\* partitions and kept the other two, one of which begins at the constant.
C11_Witness ==
    /\ walk.done
    /\ walk.expr.op = "and"
    /\ HasUnresolvable(walk.expr)
    /\ Len(walk.ranges) = 3
    /\ walk.rangeset = {2, 3}
    /\ \E i \in 1..2 :
          /\ walk.expr.args[i].op = "cmp"
          /\ walk.expr.args[i].strategy = "ge"
          /\ walk.expr.args[i].value = walk.ranges[1].max

(***************************************************************************)
(* The partition creation orchestrator (src/pathman.h: create_partitions,  *)
(* create_partitions_bg_worker, create_partitions_internal), as sections   *)
(* 4.4 and 5 describe it, on top of the helpers of xact_handling.c.        *)
(***************************************************************************)
XACT_READ_UNCOMMITTED == 0
XACT_READ_COMMITTED == 1
XACT_REPEATABLE_READ == 2
XACT_SERIALIZABLE == 3

IsoLevels == XACT_READ_UNCOMMITTED..XACT_SERIALIZABLE

xact_is_level_read_committed_UpToRepeatableRead(level) == level <= XACT_REPEATABLE_READ

\* xact_is_level_read_committed: XactIsoLevel <= XACT_READ_COMMITTED.
xact_is_level_read_committed(level) == level <= XACT_READ_COMMITTED

(***************************************************************************)
(* The isolation-level check on its own: each session begins transactions  *)
(* at any level, calls xact_is_level_read_committed and ends them.         *)
(* ret[s] keeps the value of the last call until the transaction ends.     *)
(***************************************************************************)
LevelInit ==
    /\ InitLocks
    /\ iso = [s \in Sessions |-> NoLevel]
    /\ ranges = <<>>
    /\ nextId = 1
    /\ ev = [p \in Procs |-> NoEvent]
    /\ search = NoSearch
    /\ walk = NoWalk

\* BEGIN ISOLATION LEVEL ...: XactIsoLevel is set for the transaction.
BeginAtLevel(s, level) ==
    /\ pc[s] = "txn"
    /\ iso[s] = NoLevel
    /\ iso' = [iso EXCEPT ![s] = level]
    /\ UNCHANGED <<lockvars, ranges, nextId, ev, search, walk>>

CallIsLevelReadCommitted(s) ==
    /\ pc[s] = "txn"
    /\ iso[s] # NoLevel
    /\ ret' = [ret EXCEPT ![s] = xact_is_level_read_committed(iso[s])]
    /\ pc' = [pc EXCEPT ![s] = "lvl_ret"]
    /\ UNCHANGED <<held, waitq, lockmode, acq, snap, seen, after, editDepth, dataDepth>>
    /\ UNCHANGED <<orchvars, search, walk>>

LevelReturn(s) ==
    /\ pc[s] = "lvl_ret"
    /\ pc' = [pc EXCEPT ![s] = "txn"]
    /\ UNCHANGED <<held, waitq, lockmode, acq, ret, snap, seen, after, editDepth, dataDepth>>
    /\ UNCHANGED <<orchvars, search, walk>>

LevelTxnEnd(s) ==
    /\ pc[s] = "txn"
    /\ iso[s] # NoLevel
    /\ iso' = [iso EXCEPT ![s] = NoLevel]
    /\ ret' = [ret EXCEPT ![s] = "none"]
    /\ UNCHANGED <<held, waitq, pc, lockmode, acq, snap, seen, after, editDepth, dataDepth>>
    /\ UNCHANGED <<ranges, nextId, ev, search, walk>>

LevelNext ==
    \E s \in Sessions :
        \/ \E level \in IsoLevels : BeginAtLevel(s, level)
        \/ CallIsLevelReadCommitted(s)
        \/ LevelReturn(s)
        \/ LevelTxnEnd(s)

LevelSpec == LevelInit /\ [][LevelNext]_vars

InsertValues == {3, 6}

\* The modes the statements before an insert lock the parent in: the row-write
\* lock of an INSERT (weaker than the edit lock, conflicting with ShareLock) and
\* ShareLock (stronger than the edit lock, compatible with itself).
PriorModes == {RowExclusiveLock, ShareLock}

\* The partitions published at the start: [0,2) and [4,6), both committed.
InitRanges ==
    <<[min |-> 0, max |-> 2, id |-> 1, by |-> 0, committed |-> TRUE],
      [min |-> 4, max |-> 6, id |-> 2, by |-> 0, committed |-> TRUE]>>

OrchInit ==
    /\ InitLocks
    /\ iso = [s \in Sessions |-> NoLevel]
    /\ ranges = InitRanges
    /\ nextId = 3
    /\ ev = [p \in Procs |-> NoEvent]
    /\ search = NoSearch
    /\ walk = NoWalk

\* The new sequence with entry e at its sorted place (publish by swap).
InsertSorted(rs, e) ==
    LET k == Cardinality({i \in 1..Len(rs) : rs[i].min < e.min}) IN
    SubSeq(rs, 1, k) \o <<e>> \o SubSeq(rs, k + 1, Len(rs))

\* The creation policy: the interval of width Interval aligned on a multiple
\* of Interval that holds the value, cut to the hole it falls in.
Max2(a, b) == IF a > b THEN a ELSE b
Min2(a, b) == IF a < b THEN a ELSE b

NewLow(rs, v) ==
    LET below == {rs[i].max : i \in {j \in 1..Len(rs) : rs[j].max <= v}}
        aligned == (v \div Interval) * Interval
    IN IF below = {} THEN aligned
       ELSE Max2(aligned, CHOOSE b \in below : \A c \in below : c <= b)

NewHigh(rs, v) ==
    LET above == {rs[i].min : i \in {j \in 1..Len(rs) : rs[j].min > v}}
        aligned == (v \div Interval) * Interval + Interval
    IN IF above = {} THEN aligned
       ELSE Min2(aligned, CHOOSE b \in above : \A c \in above : b <= c)

\* What a rollback of p's transaction leaves of the sequence, and what its
\* commit makes of it.
RolledBack(rs, p) == SelectSeq(rs, LAMBDA e : e.committed \/ e.by # p)

Committed(rs, p) ==
    [i \in 1..Len(rs) |-> IF rs[i].by = p THEN [rs[i] EXCEPT !.committed = TRUE] ELSE rs[i]]

\* do_we_hold_the_lock and the loop of xact_bgw_conflicting_lock_exists, run
\* to their return in one step of the caller.
do_we_hold_the_lock(h, q, p, m) ==
    LET a == LockAcquire(h, q, p, m, TRUE) IN
    IF a.kind \in {"ALREADY_HELD", "OK"}
    THEN LET r == LockRelease(a.held, a.waitq, p, m) IN
         [held |-> r.held, waitq |-> r.waitq, ret |-> a.kind = "ALREADY_HELD"]
    ELSE [held |-> a.held, waitq |-> a.waitq, ret |-> FALSE]

ConflictingLockLoop_FirstModeOnly(h, q, p, m) == do_we_hold_the_lock(h, q, p, m)

RECURSIVE ConflictingLockLoop(_, _, _, _)
ConflictingLockLoop(h, q, p, m) ==
    CHOOSE out \in {IF r.ret THEN r
                    ELSE IF m + 1 <= AccessExclusiveLock
                    THEN ConflictingLockLoop(r.held, r.waitq, p, m + 1)
                    ELSE r :
                    r \in {do_we_hold_the_lock(h, q, p, m)}} : TRUE

\* An insert of value v: the search finds its partition, or a
\* missing-partition event is detected.
Insert(p, v) ==
    /\ InTxn(p)
    /\ p \in Sessions
    /\ LET r == search_range_partition_eq(v, ranges) IN
       IF r.res = SEARCH_RANGEREL_FOUND
       THEN /\ ev' = [ev EXCEPT ![p] = NoEvent]
            /\ UNCHANGED pc
       ELSE /\ ev' = [ev EXCEPT ![p] = [NoEvent EXCEPT !.state = "Detected", !.value = v]]
            /\ pc' = [pc EXCEPT ![p] = "Detected"]
    /\ UNCHANGED <<held, waitq, lockmode, acq, ret, snap, seen, after, editDepth, dataDepth>>
    /\ UNCHANGED <<iso, ranges, nextId, search, walk>>

\* Detected -> Deciding: the lock coordinator is consulted; -> CreatingInline
\* when the level is read committed and no conflicting lock is held;
\* otherwise -> CreatingIsolated.
Decide(p, level) ==
    /\ pc[p] = "Detected"
    /\ iso[p] \in {NoLevel, level}
    /\ iso' = [iso EXCEPT ![p] = level]
    /\ \E r \in {ConflictingLockLoop(held, waitq, p, ShareUpdateExclusiveLock)} :
       LET inline == xact_is_level_read_committed(level) /\ ~r.ret IN
       /\ held' = r.held
       /\ waitq' = r.waitq
       /\ pc' = [pc EXCEPT ![p] = IF inline THEN "CreatingInline" ELSE "CreatingIsolated"]
       /\ ev' = [ev EXCEPT ![p].state = IF inline THEN "CreatingInline" ELSE "CreatingIsolated"]
    /\ UNCHANGED <<lockmode, acq, ret, snap, seen, after, editDepth, dataDepth>>
    /\ UNCHANGED <<ranges, nextId, search, walk>>

\* CreatingIsolated: the worker is started with the value, and the caller
\* waits for it.
StartWorker(p) ==
    /\ pc[p] = "CreatingIsolated"
    /\ pc[WorkerOf(p)] = "off"
    /\ pc' = [pc EXCEPT ![p] = "wait_worker", ![WorkerOf(p)] = "CreatingInline"]
    /\ ev' = [ev EXCEPT ![WorkerOf(p)] =
                 [NoEvent EXCEPT !.state = "CreatingIsolated", !.value = ev[p].value]]
    /\ UNCHANGED <<held, waitq, lockmode, acq, ret, snap, seen, after, editDepth, dataDepth>>
    /\ UNCHANGED <<iso, ranges, nextId, search, walk>>

\* Step 3 of the creation, in the caller or in the worker: the edit lock.
AcquireEditLock(p) ==
    /\ pc[p] = "CreatingInline"
    /\ xact_lock_partitioned_rel(p, "recheck")
    /\ UNCHANGED <<orchvars, search, walk>>

\* The search is run again under the edit lock: the hole has been closed, or
\* a partition is to be created.
Recheck(p) ==
    /\ pc[p] = "recheck"
    /\ LET r == search_range_partition_eq(ev[p].value, ranges) IN
       IF r.res = SEARCH_RANGEREL_FOUND
       THEN /\ ev' = [ev EXCEPT ![p].result = ranges[r.idx].id]
            /\ pc' = [pc EXCEPT ![p] = "unlock"]
       ELSE /\ pc' = [pc EXCEPT ![p] = "create"]
            /\ UNCHANGED ev
    /\ UNCHANGED <<held, waitq, lockmode, acq, ret, snap, seen, after, editDepth, dataDepth>>
    /\ UNCHANGED <<iso, ranges, nextId, search, walk>>

\* register_partition succeeds: the partition is created and the new sequence
\* published.
Create(p) ==
    /\ pc[p] = "create"
    /\ nextId <= MaxPartId
    /\ ranges' = InsertSorted(ranges, [min |-> NewLow(ranges, ev[p].value),
                                       max |-> NewHigh(ranges, ev[p].value),
                                       id |-> nextId, by |-> p, committed |-> FALSE])
    /\ nextId' = nextId + 1
    /\ ev' = [ev EXCEPT ![p].result = nextId]
    /\ pc' = [pc EXCEPT ![p] = "unlock"]
    /\ UNCHANGED <<held, waitq, lockmode, acq, ret, snap, seen, after, editDepth, dataDepth>>
    /\ UNCHANGED <<iso, search, walk>>

\* register_partition fails with a CreationError: the transaction is aborted.
CreateFails(p) ==
    /\ pc[p] = "create"
    /\ AbortLocks(p)
    /\ pc' = [pc EXCEPT ![p] = "error"]
    /\ UNCHANGED <<lockmode, acq, ret, snap, seen, after>>
    /\ UNCHANGED <<orchvars, search, walk>>

\* The caller releases the edit lock: Registered.
ReleaseEditLock(p) ==
    /\ pc[p] = "unlock"
    /\ p \in Sessions
    /\ xact_unlock_partitioned_rel(p, "txn")
    /\ ev' = [ev EXCEPT ![p].state = "Registered"]
    /\ UNCHANGED <<iso, ranges, nextId, search, walk>>

\* The worker releases the edit lock; its transaction commits and it exits.
WorkerCommit(w) ==
    /\ pc[w] = "unlock"
    /\ w \in Workers
    /\ LET r == LockReleaseAll(held, waitq, w) IN
       /\ held' = r.held
       /\ waitq' = r.waitq
    /\ editDepth' = [editDepth EXCEPT ![w] = 0]
    /\ pc' = [pc EXCEPT ![w] = "off"]
    /\ ranges' = Committed(ranges, w)
    /\ ev' = [ev EXCEPT ![w].state = "Registered"]
    /\ UNCHANGED <<lockmode, acq, ret, snap, seen, after, dataDepth>>
    /\ UNCHANGED <<iso, nextId, search, walk>>

\* The waiting caller is unblocked by its worker's exit and searches again.
WorkerDone(p) ==
    /\ pc[p] = "wait_worker"
    /\ pc[WorkerOf(p)] = "off"
    /\ LET r == search_range_partition_eq(ev[p].value, ranges) IN
       IF ev[WorkerOf(p)].state = "Registered" /\ r.res = SEARCH_RANGEREL_FOUND
       THEN /\ ev' = [ev EXCEPT ![p].state = "Registered", ![p].result = ranges[r.idx].id,
                               ![WorkerOf(p)] = NoEvent]
            /\ pc' = [pc EXCEPT ![p] = "txn"]
            /\ UNCHANGED <<held, waitq, editDepth, dataDepth>>
       ELSE /\ ev' = [ev EXCEPT ![WorkerOf(p)] = NoEvent]
            /\ AbortLocks(p)
            /\ pc' = [pc EXCEPT ![p] = "error"]
    /\ UNCHANGED <<lockmode, acq, ret, snap, seen, after>>
    /\ UNCHANGED <<iso, ranges, nextId, search, walk>>

\* An error ends the transaction: what it created is rolled back; the event
\* has Failed.
ErrorRollback(p) ==
    /\ pc[p] = "error"
    /\ pc' = [pc EXCEPT ![p] = IF p \in Sessions THEN "txn" ELSE "off"]
    /\ after' = [after EXCEPT ![p] = "txn"]
    /\ ranges' = RolledBack(ranges, p)
    /\ ev' = [ev EXCEPT ![p] = IF ev[p].state = "None" THEN NoEvent
                               ELSE [NoEvent EXCEPT !.state = "Failed"]]
    /\ iso' = [s \in Sessions |-> IF s = p THEN NoLevel ELSE iso[s]]
    /\ UNCHANGED <<held, waitq, lockmode, acq, ret, snap, seen, editDepth, dataDepth>>
    /\ UNCHANGED <<nextId, search, walk>>

\* The transaction commits: its locks are released, what it created stays.
Commit(p) ==
    /\ InTxn(p)
    /\ p \in Sessions
    /\ LET r == LockReleaseAll(held, waitq, p) IN
       /\ held' = r.held
       /\ waitq' = r.waitq
    /\ editDepth' = [editDepth EXCEPT ![p] = 0]
    /\ dataDepth' = [dataDepth EXCEPT ![p] = 0]
    /\ ranges' = Committed(ranges, p)
    /\ ev' = [ev EXCEPT ![p] = NoEvent]
    /\ iso' = [iso EXCEPT ![p] = NoLevel]
    /\ UNCHANGED <<pc, lockmode, acq, ret, snap, seen, after>>
    /\ UNCHANGED <<nextId, search, walk>>

\* What is left of the sequence when session p's transaction aborts.
AbortedRanges_Cascade(rs, p) ==
    SelectSeq(rs, LAMBDA e : (e.committed /\ e.by # WorkerOf(p)) \/ e.by \notin {p, WorkerOf(p)})

AbortedRanges(rs, p) == RolledBack(rs, p)

\* The partition of p's registered event was committed by p's worker.
ByWorker(p) ==
    /\ ev[p].state = "Registered"
    /\ \E i \in 1..Len(ranges) : /\ ranges[i].id = ev[p].result
                                 /\ ranges[i].by = WorkerOf(p)
                                 /\ ranges[i].committed

\* The transaction aborts, at any point but while it waits for its worker: a
\* pending lock wait is cancelled, its locks are released, what it created is
\* rolled back.
Abort(p) ==
    /\ p \in Sessions
    /\ pc[p] \notin {"error", "wait_worker"}
    /\ AbortLocks(p)
    /\ pc' = [pc EXCEPT ![p] = "txn"]
    /\ after' = [after EXCEPT ![p] = "txn"]
    /\ lockmode' = [lockmode EXCEPT ![p] = 0]
    /\ acq' = [acq EXCEPT ![p] = "none"]
    /\ ret' = [ret EXCEPT ![p] = "none"]
    /\ snap' = [snap EXCEPT ![p] = NoLocks]
    /\ seen' = [seen EXCEPT ![p] = NoSeen]
    /\ ranges' = AbortedRanges(ranges, p)
    /\ ev' = [ev EXCEPT ![p] = IF ByWorker(p) THEN [ev[p] EXCEPT !.state = "Aborted"]
                               ELSE NoEvent]
    /\ iso' = [iso EXCEPT ![p] = NoLevel]
    /\ UNCHANGED <<nextId, search, walk>>

OrchNext ==
    \/ \E p \in Sessions :
        \/ \E m \in PriorModes : PriorLock(p, m)
        \/ StatementLocked(p)
        \/ \E v \in InsertValues : Insert(p, v)
        \/ \E level \in IsoLevels : Decide(p, level)
        \/ StartWorker(p)
        \/ ReleaseEditLock(p)
        \/ WorkerDone(p)
        \/ Commit(p)
        \/ Abort(p)
    \/ \E w \in Workers : WorkerCommit(w)
    \/ \E p \in Procs :
        \/ AcquireEditLock(p)
        \/ LockGranted(p)
        \/ LockedPartitionedRel(p)
        \/ Recheck(p)
        \/ Create(p)
        \/ CreateFails(p)
        \/ WaitInterrupted(p)
        \/ ErrorRollback(p)

OrchSpec == OrchInit /\ [][OrchNext]_vars

\* The partition with identifier id is in the published sequence.
Published(id) == \E i \in 1..Len(ranges) : ranges[i].id = id

Covering(v) == {i \in 1..Len(ranges) : Covers(ranges[i], v)}

C5_SortedDisjointUnique ==
    /\ SortedNoOverlap(ranges)
    /\ \A i \in 1..Len(ranges) : \A j \in 1..Len(ranges) :
          i # j => ranges[i].id # ranges[j].id

\* Two creations have been made, one inline and rolled back by its
\* transaction's abort, one by a worker, which is in the sequence.
C5_Witness ==
    /\ nextId = 5
    /\ Len(ranges) = Len(InitRanges) + 1
    /\ \E i \in 1..Len(ranges) : ranges[i].by \in Workers

\* C9: a partition committed by a worker is in the published sequence after
\* every step, whatever the step (an abort of the triggering transaction
\* included), and the search finds it for every value of its interval.
C9_WorkerPartitionStays ==
    [][\A i \in 1..Len(ranges) :
          (ranges[i].committed /\ ranges[i].by \in Workers) =>
              \E j \in 1..Len(ranges') :
                  /\ ranges'[j] = ranges[i]
                  /\ \A v \in ranges[i].min..(ranges[i].max - 1) :
                        search_range_partition_eq(v, ranges') =
                            [res |-> SEARCH_RANGEREL_FOUND, idx |-> j]]_vars

\* The triggering transaction has aborted after its worker committed the
\* partition, which is still published and covers the value.
C9_Witness ==
    \E s \in Sessions :
        /\ ev[s].state = "Aborted"
        /\ \E i \in 1..Len(ranges) : /\ ranges[i].id = ev[s].result
                                     /\ ranges[i].by = WorkerOf(s)
                                     /\ ranges[i].committed
                                     /\ Covers(ranges[i], ev[s].value)

\* C13: an event leaves Detected (the decision) for CreatingInline exactly
\* when xact_is_level_read_committed is true of the transaction's level and
\* the caller holds no lock from ShareUpdateExclusiveLock to
\* AccessExclusiveLock on the parent, and for CreatingIsolated in every other
\* case; an event that is in one of the two never moves to the other.
C13_DecisionRule ==
    [][\A s \in Sessions :
          /\ (ev[s].state = "Detected" /\ ev'[s].state \notin {"Detected", "None", "Aborted"})
             => /\ ev'[s].state \in {"CreatingInline", "CreatingIsolated"}
                /\ (ev'[s].state = "CreatingInline") =
                      (/\ iso'[s] \in {XACT_READ_UNCOMMITTED, XACT_READ_COMMITTED}
                       /\ HeldModes(held, s) \cap EditStrength = {})
          /\ ev[s].state = "CreatingInline" => ev'[s].state # "CreatingIsolated"
          /\ ev[s].state = "CreatingIsolated" => ev'[s].state # "CreatingInline"]_vars

\* At read committed, one session was sent to the isolated context because
\* of the ShareLock it holds, another, holding no lock, creates inline.
C13_Witness ==
    \E s \in Sessions, t \in Sessions :
        /\ ev[s].state = "CreatingIsolated"
        /\ pc[s] = "CreatingIsolated"
        /\ iso[s] = XACT_READ_COMMITTED
        /\ held[s][ShareLock] > 0
        /\ ev[t].state = "CreatingInline"
        /\ pc[t] = "CreatingInline"
        /\ iso[t] = XACT_READ_COMMITTED
        /\ HeldModes(held, t) = {}

\* The points of an inline creation in the calling session, from the decision
\* to the release of the edit lock.
InlinePoints == {"CreatingInline", "wait_edit", "got_edit", "recheck", "create", "unlock"}

\* C15: when a session's transaction aborts at any point of an inline
\* creation, before Registered, then afterwards the session holds and awaits
\* no lock, the published sequence has no partition the transaction created,
\* and every other session whose event was registered by its own re-check
\* (it decided for inline creation: its level passes and it holds no lock of
\* the edit strength or above) holds the id of a partition that is in the
\* published sequence.
C15_Original ==
    [][\A s \in Sessions :
          (pc[s] \in InlinePoints /\ pc'[s] = "txn" /\ ev'[s] = NoEvent)
          => /\ HeldModes(held', s) = {}
             /\ ~IsWaiting(waitq', s)
             /\ \A i \in 1..Len(ranges') : ranges'[i].by = s => ranges'[i].committed
             /\ \A t \in Sessions \ {s} :
                   (/\ ev'[t].state = "Registered"
                    /\ xact_is_level_read_committed(iso'[t])
                    /\ HeldModes(held', t) \cap EditStrength = {})
                   => \E i \in 1..Len(ranges') : ranges'[i].id = ev'[t].result]_vars

(***************************************************************************)
(* The orchestrator under fair scheduling, without cancellations and lock  *)
(* timeouts: a process that can take its next step takes it, a call of     *)
(* register_partition returns, and a transaction that is not inside a call *)
(* is ended by its session.                                                *)
(***************************************************************************)
ProgramStep(p) ==
    \/ StatementLocked(p)
    \/ \E level \in IsoLevels : Decide(p, level)
    \/ StartWorker(p)
    \/ AcquireEditLock(p)
    \/ LockGranted(p)
    \/ LockedPartitionedRel(p)
    \/ Recheck(p)
    \/ Create(p)
    \/ CreateFails(p)
    \/ ReleaseEditLock(p)
    \/ WorkerCommit(p)
    \/ WorkerDone(p)
    \/ ErrorRollback(p)

\* The value the sessions insert: the one in the gap.
LiveValues == {3}

LiveNext ==
    \/ \E p \in Sessions :
        \/ \E m \in PriorModes : PriorLock(p, m)
        \/ StatementLocked(p)
        \/ \E v \in LiveValues : Insert(p, v)
        \/ \E level \in IsoLevels : Decide(p, level)
        \/ StartWorker(p)
        \/ ReleaseEditLock(p)
        \/ WorkerDone(p)
        \/ Commit(p)
    \/ \E w \in Workers : WorkerCommit(w)
    \/ \E p \in Procs :
        \/ AcquireEditLock(p)
        \/ LockGranted(p)
        \/ LockedPartitionedRel(p)
        \/ Recheck(p)
        \/ Create(p)
        \/ CreateFails(p)
        \/ ErrorRollback(p)

Fairness ==
    /\ \A p \in Procs : WF_vars(ProgramStep(p))
    /\ \A s \in Sessions : SF_vars(Commit(s))

LiveSpec == OrchInit /\ [][LiveNext]_vars /\ Fairness

\* The caller waits for its worker, and the worker is queued for the edit lock
\* behind a lock the caller itself holds: one that conflicts with the edit lock,
\* or one that blocks an earlier waiter whose request conflicts with it.
BlockedOnOwnLock(s) ==
    /\ pc[s] = "wait_worker"
    /\ \E i \in 1..Len(waitq) :
        /\ waitq[i].proc = WorkerOf(s)
        /\ \/ HeldModes(held, s) \cap conflictTab(ShareUpdateExclusiveLock) # {}
           \/ \E j \in 1..(i - 1) :
                /\ waitq[j].mode \in conflictTab(ShareUpdateExclusiveLock)
                /\ HeldModes(held, s) \cap conflictTab(waitq[j].mode) # {}

Terminal(s) == ev[s].state \in {"Registered", "Failed"}

InlineLevels == {level \in IsoLevels : xact_is_level_read_committed(level)}

InlineStep(p) ==
    \/ StatementLocked(p)
    \/ \E level \in InlineLevels : Decide(p, level)
    \/ AcquireEditLock(p)
    \/ LockGranted(p)
    \/ LockedPartitionedRel(p)
    \/ Recheck(p)
    \/ Create(p)
    \/ CreateFails(p)
    \/ ReleaseEditLock(p)
    \/ ErrorRollback(p)

InlineNext ==
    \E p \in Sessions :
        \/ \E m \in WeakModes : PriorLock(p, m)
        \/ \E v \in LiveValues : Insert(p, v)
        \/ StatementLocked(p)
        \/ \E level \in InlineLevels : Decide(p, level)
        \/ AcquireEditLock(p)
        \/ LockGranted(p)
        \/ LockedPartitionedRel(p)
        \/ Recheck(p)
        \/ Create(p)
        \/ CreateFails(p)
        \/ ReleaseEditLock(p)
        \/ ErrorRollback(p)
        \/ Commit(p)

InlineSpec ==
    OrchInit /\ [][InlineNext]_vars /\ \A s \in Sessions : WF_vars(InlineStep(s))

\* p waits for a lock that t holds, or that t awaits ahead of p, in a mode
\* conflicting with p's request.
WaitsOn(p, t) ==
    /\ p # t
    /\ \E i \in 1..Len(waitq) :
          /\ waitq[i].proc = p
          /\ \/ conflictTab(waitq[i].mode) \cap HeldModes(held, t) # {}
             \/ \E j \in 1..(i - 1) : /\ waitq[j].proc = t
                                      /\ waitq[j].mode \in conflictTab(waitq[i].mode)

\* A set of processes each of which waits on another one of the set.
WaitCycle == \E C \in SUBSET Procs : C # {} /\ \A p \in C : \E t \in C : WaitsOn(p, t)

\* C14: among sessions that create inline (xact_is_level_read_committed true,
\* only locks weaker than the edit lock held), there is never a cycle of
\* sessions each waiting for a lock of the next, no request for the edit
\* lock is refused as a deadlock, and every session that starts an inline
\* creation obtains the edit lock.
C14_InlineNoDeadlock ==
    /\ []~WaitCycle
    /\ [][\A s \in Sessions :
            pc[s] = "CreatingInline" => pc'[s] \in {"CreatingInline", "got_edit", "wait_edit"}]_vars
    /\ \A s \in Sessions : (pc[s] = "CreatingInline") ~> (editDepth[s] > 0)

\* A session holding its row-write lock waits for the edit lock, which a
\* session that also holds a row-write lock has.
C14_Witness ==
    \E s \in Sessions, t \in Sessions :
        /\ s # t
        /\ pc[s] = "wait_edit"
        /\ held[s][RowExclusiveLock] > 0
        /\ WaitsOn(s, t)
        /\ editDepth[t] > 0
        /\ held[t][RowExclusiveLock] > 0

====
